---- MODULE Spec2Model ----
(***************************************************************************)
(* DrumVision (src/App.tsx, src/services/gemini.ts, src/types.ts).         *)
(*                                                                         *)
(* Units.  Playback times are integers in milliseconds (0.035 s = 35),     *)
(* velocities are integers in hundredths (0.1 = 10, 1.0 = 100).  The      *)
(* debounce comparison Math.abs(c.time - hit.time) < 0.035 is evaluated as *)
(* the program evaluates it, on the doubles nearest to the times (see      *)
(* WithinDebounce): two times exactly 35 ms apart compare below 0.035 for  *)
(* some operands (0.001 and 0.036, 1.0 and 1.035) and not for others (0    *)
(* and 0.035).                                                             *)
(* Indices in firedHitsRef are 0-based as in the source; sequences are     *)
(* 1-based, so index idx addresses hitsRef[idx + 1].                       *)
(***************************************************************************)
EXTENDS Integers, Sequences, FiniteSets

(* ------------------------------------------------------------------ *)
(* Program constants                                                   *)
(* ------------------------------------------------------------------ *)
DEBOUNCE_THRESHOLD == 35

VelocityFloor == 10

VelocityCeil == 100

LoopResetWindow == 100

\* Fixed tempo and resolution of the export: hit.time * 120 * 128 / 60.
MidiTempo == 120

MidiTicksPerBeat == 128

\* Math.floor(hit.velocity * 127)
MidiVelocityScale == 127

\* setTimeout(..., 80): the orb's activity window in ms.
OrbWindow == 80

\* setScale(1): the neutral scale, in thousandths.
OrbNeutralScale == 1000

\* setScale(1 + velocity * 0.6): thousandths of scale per hundredth of velocity.
OrbGain == 6

DrumTypes == {"kick", "snare", "hihat"}

(* ------------------------------------------------------------------ *)
(* Bounds and input grids                                              *)
(* ------------------------------------------------------------------ *)
MaxRaw == 3

MaxResp == 2

MaxUploads == 2

MaxClock == 3

MaxMidiHits == 2

MaxDownloads == 2

MaxOrbNow == 200

MaxIdleTicks == 2

CleanTimes == {0, 1, 35, 36}

CleanVelocities == {5, 60, 120}

PlaybackTimes == {0, 50, 120}

OracleVelocities == {5}

SchedVelocities == {5, 80}

SeqsUpTo(S, n) == UNION {[1..k -> S] : k \in 0..n}

\* Raw inputs of the cleaner harness carry two of the three drum types.
CleanTypes == {"kick", "snare"}

CleanHits == [time : CleanTimes, type : CleanTypes, velocity : CleanVelocities]

RawInputs == SeqsUpTo(CleanHits, MaxRaw)

OracleHits == [time : PlaybackTimes, type : DrumTypes, velocity : OracleVelocities]

OracleResponses == SeqsUpTo(OracleHits, MaxResp)

SchedHits == [time : PlaybackTimes, type : DrumTypes, velocity : SchedVelocities]

SchedResponses == SeqsUpTo(SchedHits, MaxResp)

Files == {"none", "audio"}

\* Oracle responses of one drum type, for the specifications about the
\* upload flow and the frame loop.
FlowHits == [time : PlaybackTimes, type : {"kick"}, velocity : OracleVelocities]

FlowResponses == SeqsUpTo(FlowHits, MaxResp)

OrbSteps == {20, 60}

OrbVelocities == {10, 80}

MidiTimes == {0, 35, 1000, 1234}

MidiRawVelocities == {5, 80, 120}

MidiRawHits == [time : MidiTimes, type : DrumTypes, velocity : MidiRawVelocities]

MidiResponses == SeqsUpTo(MidiRawHits, MaxMidiHits)

OracleErrors == {"Model configuration error. Please contact support.",
                 "Analysis failed. Audio may be too complex or long."}

(* ------------------------------------------------------------------ *)
(* cleanDetections (HitCleaner)                                        *)
(* ------------------------------------------------------------------ *)
Abs(x) == IF x < 0 THEN 0 - x ELSE x

Min2(a, b) == IF a < b THEN a ELSE b

Max2(a, b) == IF a > b THEN a ELSE b

\* Mutant of InsertByTime: ties are placed before equal-time elements
\* (an unstable sort).
InsertByTimeTiesFirst(s, h) ==
    LET k == Cardinality({i \in 1..Len(s) : s[i].time < h.time})
    IN  SubSeq(s, 1, k) \o <<h>> \o SubSeq(s, k + 1, Len(s))

\* Mutant of InsertByTime: the element is appended where it stands (no sort).
InsertByTimeAppend(s, h) == Append(s, h)

\* One insertion of Array.prototype.sort with comparator a.time - b.time:
\* h goes after every element whose time is <= h.time (the sort is stable).
InsertByTime(s, h) ==
    LET k == Cardinality({i \in 1..Len(s) : s[i].time <= h.time})
    IN  SubSeq(s, 1, k) \o <<h>> \o SubSeq(s, k + 1, Len(s))

RECURSIVE SortByTime(_)
SortByTime(s) ==
    IF s = <<>> THEN <<>>
    ELSE InsertByTime(SortByTime(SubSeq(s, 1, Len(s) - 1)), s[Len(s)])

(* Times are IEEE-754 doubles in the program.  A time of t ms is the double *)
(* nearest to t / 1000, fl(t), and 0.035 is fl(35).  For 0 < t < 1024000,   *)
(* with 2^E <= t / 1000 < 2^(E + 1), fl(t) is a multiple of 2^(E - 52), and *)
(* FloatError(t) is fl(t) - t / 1000 in units of 1 / (1000 * 2^62).         *)
RECURSIVE Pow2(_)
Pow2(n) ==
    IF n = 0 THEN 1
    ELSE IF n >= 8 THEN 256 * Pow2(n - 8)
    ELSE 2 * Pow2(n - 1)

RECURSIVE ExponentUp(_, _)
ExponentUp(t, e) == IF 1000 * Pow2(e + 1) <= t THEN ExponentUp(t, e + 1) ELSE e

RECURSIVE ExponentDown(_, _)
ExponentDown(t, n) == IF t * Pow2(n) < 1000 THEN ExponentDown(t, n + 1) ELSE n

\* The binary exponent E of t / 1000, for t > 0.
FloatExponent(t) ==
    IF t >= 1000 THEN ExponentUp(t, 0) ELSE 0 - ExponentDown(t, 0)

\* (x * 2^k) mod 2000.
RECURSIVE TimesPow2Mod(_, _)
TimesPow2Mod(x, k) ==
    IF k >= 8 THEN TimesPow2Mod((256 * x) % 2000, k - 8)
    ELSE (Pow2(k) * x) % 2000

\* t * 2^(52 - E) mod 2000: the remainder of the 53-bit quotient by 1000 and,
\* above it, the parity of the quotient.
FloatRemainder(t) == TimesPow2Mod(t % 2000, 52 - FloatExponent(t))

\* The quotient is rounded up (round to nearest, ties to even).
FloatRoundsUp(t) ==
    LET r == FloatRemainder(t) % 1000
        odd == FloatRemainder(t) \div 1000
    IN  r > 500 \/ (r = 500 /\ odd = 1)

FloatError(t) ==
    IF t = 0 THEN 0
    ELSE LET r == FloatRemainder(t) % 1000
         IN  (IF FloatRoundsUp(t) THEN 1000 - r ELSE 0 - r)
                * Pow2(FloatExponent(t) + 10)

\* The 53-bit significand of fl(t) is odd.
FloatMantissaOdd(t) ==
    LET odd == FloatRemainder(t) \div 1000
    IN  (odd + (IF FloatRoundsUp(t) THEN 1 ELSE 0)) % 2 = 1

\* Math.abs(a - b) < 0.035 on doubles, for times a, b in ms.  Away from a
\* gap of exactly 35 ms the rounding errors, below 2^31 of 2^62 units a
\* millisecond, cannot change the answer.  At 35 ms the exact difference of
\* the two doubles is rounded to the double it is nearest to; that is below
\* fl(35) when the difference is below fl(35) minus half the spacing 2^-57
\* of the doubles next to 0.035, or equal to it with fl(35) of odd
\* significand.
WithinDebounce(a, b) ==
    LET gap == Abs(a - b)
        hi == Max2(a, b)
        lo == Min2(a, b)
        s == FloatError(hi) - FloatError(lo) - FloatError(DEBOUNCE_THRESHOLD)
                + 1000 * Pow2(4)
    IN  IF gap # DEBOUNCE_THRESHOLD THEN gap < DEBOUNCE_THRESHOLD
        ELSE s < 0 \/ (s = 0 /\ FloatMantissaOdd(DEBOUNCE_THRESHOLD))

\* Mutant of IsDuplicate: only the last kept hit is compared.
IsDuplicateLastOnly(cleaned, hit) ==
    /\ cleaned # <<>>
    /\ cleaned[Len(cleaned)].type = hit.type
    /\ WithinDebounce(cleaned[Len(cleaned)].time, hit.time)

\* cleaned.some(c => c.type === hit.type &&
\*                   Math.abs(c.time - hit.time) < DEBOUNCE_THRESHOLD)
IsDuplicate(cleaned, hit) ==
    \E i \in 1..Len(cleaned) :
        /\ cleaned[i].type = hit.type
        /\ WithinDebounce(cleaned[i].time, hit.time)

\* Mutant of ClampVelocity: the lower bound is forgotten.
ClampVelocityNoFloor(v) == Min2(VelocityCeil, v)

ClampVelocity(v) == Max2(VelocityFloor, Min2(VelocityCeil, v))

RECURSIVE CleanWalk(_, _)
CleanWalk(sorted, cleaned) ==
    IF sorted = <<>> THEN cleaned
    ELSE LET hit == Head(sorted)
         IN  IF IsDuplicate(cleaned, hit)
             THEN CleanWalk(Tail(sorted), cleaned)
             ELSE CleanWalk(Tail(sorted),
                            Append(cleaned,
                                   [hit EXCEPT !.velocity = ClampVelocity(hit.velocity)]))

\* Mutant of cleanDetections: the raw oracle output is used as it is.
cleanDetectionsIdentity(rawHits) == rawHits

\* cleanDetections, App.tsx 25-45.
cleanDetections(rawHits) ==
    IF Len(rawHits) = 0 THEN <<>>
    ELSE CleanWalk(SortByTime(rawHits), <<>>)

(* ------------------------------------------------------------------ *)
(* State                                                               *)
(* ------------------------------------------------------------------ *)
VARIABLES
    hits,               \* useState hits: the canonical hit sequence
    hitsRef,            \* hitsRef.current: what the scheduler reads
    processState,       \* useState processState: [status, message]
    audioUrl,           \* useState audioUrl: 0 is null, else the upload's id
    audioRef,           \* audioRef.current is attached (the <audio> is rendered)
    firedHitsRef,       \* firedHitsRef.current: set of 0-based indices
    lastHitTimes,       \* useState lastHitTimes: type -> wall-clock stamp
    velocities,         \* useState velocities: type -> velocity
    rafPending,         \* number of pending requestAnimationFrame(updateVisuals) requests
    mounted,            \* the App component is mounted
    uploads,            \* upload id -> stage of its analysis flow
    nUploads,           \* number of change events of the file input handled
    uncaught,           \* message of an unhandled promise rejection, "" if none
    clock,              \* the last value read from performance.now()
    time,               \* playback time read by the last tick, -1 if none
    currentHitsToFire,  \* batch emitted by the last tick
    didReset,           \* observer: the last tick cleared the fired-set (loop reset)
    hitsFrom,           \* observer: upload whose response produced hits / ready
    emitLog,            \* observer: index -> emissions in the current run (capped at 2)
    monoRun,            \* observer: tick times of the current run never decreased
    staleIdx,           \* observer: fired indices marked against an older hitsRef
    idleTicks,          \* observer: ticks that found no audio element so far (capped)
    rawIn,              \* cleaner harness: raw input
    cleanOut,           \* cleaner harness: cleanDetections(rawIn)
    cleanTwice,         \* cleaner harness: cleanDetections(cleanOut)
    cleanPc,            \* cleaner harness: position
    midiClicks,         \* observer: calls of downloadMidi so far (capped)
    midiDownloads,      \* number of MIDI files offered for download (capped)
    midiNotes,          \* arguments of the NoteEvents of the last file built
    orbNow,             \* orb harness: wall-clock time in ms
    orbLastHitTime,     \* DrumOrb prop lastHitTime
    orbVelocity,        \* DrumOrb prop velocity
    orbActive,          \* DrumOrb useState active
    orbScale,           \* DrumOrb useState scale, in thousandths
    orbTimers,          \* deadlines of the DrumOrb's pending timeouts
    orbEffectPending,   \* DrumOrb rendered with new props, effect not yet run
    orbOwnTimer,        \* deadline of the timeout the registered cleanup clears (0: none)
    orbPrevTimer        \* observer: deadline of the timeout the last cleanup cleared (0: none)

vars == <<hits, hitsRef, processState, audioUrl, audioRef, firedHitsRef,
          lastHitTimes, velocities, rafPending, mounted, uploads, nUploads,
          uncaught, clock, time, currentHitsToFire, didReset, hitsFrom,
          emitLog, monoRun, staleIdx, idleTicks, rawIn, cleanOut, cleanTwice,
          cleanPc, midiClicks, midiDownloads, midiNotes, orbNow,
          orbLastHitTime, orbVelocity, orbActive, orbScale, orbTimers,
          orbEffectPending, orbOwnTimer, orbPrevTimer>>

appVars == <<hits, hitsRef, processState, audioUrl, audioRef, firedHitsRef,
             lastHitTimes, velocities, rafPending, mounted, uploads, nUploads,
             uncaught, clock, time, currentHitsToFire, didReset, hitsFrom,
             emitLog, monoRun, staleIdx, idleTicks>>

cleanVars == <<rawIn, cleanOut, cleanTwice, cleanPc>>

midiVars == <<midiClicks, midiDownloads, midiNotes>>

orbVars == <<orbNow, orbLastHitTime, orbVelocity, orbActive, orbScale, orbTimers,
            orbEffectPending, orbOwnTimer, orbPrevTimer>>

\* No export was asked for.
InitMidiOff ==
    /\ midiClicks = 0
    /\ midiDownloads = 0
    /\ midiNotes = <<>>

\* A DrumOrb after its first render and the effect run of that render:
\* scale 1, inactive, no firing published (types.ts 26-27; App.tsx 12-13),
\* lastHitTime is 0, so the effect set no timeout and returned no cleanup.
InitOrb ==
    /\ orbNow = 0
    /\ orbLastHitTime = 0
    /\ orbVelocity = 0
    /\ orbActive = FALSE
    /\ orbScale = 1000
    /\ orbTimers = {}
    /\ orbEffectPending = FALSE
    /\ orbOwnTimer = 0
    /\ orbPrevTimer = 0

UploadIds == 1..MaxUploads

NoEmissions == [idx \in 0..(MaxResp - 1) |-> 0]

\* State after the first render and the mount effect (App.tsx 9-18, 151-152).
InitApp ==
    /\ hits = <<>>
    /\ hitsRef = <<>>
    /\ processState = [status |-> "idle", message |-> ""]
    /\ audioUrl = 0
    /\ audioRef = FALSE
    /\ firedHitsRef = {}
    /\ lastHitTimes = [ty \in DrumTypes |-> 0]
    /\ velocities = [ty \in DrumTypes |-> 0]
    /\ rafPending = 1
    /\ mounted = TRUE
    /\ uploads = [u \in UploadIds |-> "none"]
    /\ nUploads = 0
    /\ uncaught = ""
    /\ clock = 0
    /\ time = -1
    /\ currentHitsToFire = <<>>
    /\ didReset = FALSE
    /\ hitsFrom = 0
    /\ emitLog = NoEmissions
    /\ monoRun = TRUE
    /\ staleIdx = {}
    /\ idleTicks = 0

Init ==
    /\ InitApp
    /\ rawIn = <<>>
    /\ cleanOut = <<>>
    /\ cleanTwice = <<>>
    /\ cleanPc = "off"
    /\ InitMidiOff
    /\ InitOrb

(* ------------------------------------------------------------------ *)
(* handleFileUpload                                                    *)
(* ------------------------------------------------------------------ *)
\* Mutant of FileSelected: the guard for a missing file is forgotten.
FileSelectedAlways(file) == TRUE

\* const file = e.target.files?.[0]; if (!file) return;
FileSelected(file) == file # "none"

\* Mutant of StatusOnUpload: the status is not set when an upload starts.
StatusOnUploadKept(prev) == prev

\* setProcessState({ status: 'analyzing', message: ... })
StatusOnUpload(prev) ==
    [status |-> "analyzing", message |-> "Analyzing Audio Transients..."]

\* handleFileUpload for one change event of the file input.  Without a file
\* the handler returns at once; with a file its synchronous part resets the
\* fired-set and the hits, sets the audio url and the status, and starts the
\* FileReader with its onload handler.  uploads records what the event
\* carried.
handleFileUpload(file) ==
    /\ mounted
    /\ nUploads < MaxUploads
    /\ nUploads' = nUploads + 1
    /\ uploads' = [uploads EXCEPT ![nUploads + 1] =
                      IF file = "none" THEN "nofile" ELSE "reading"]
    /\ IF ~FileSelected(file)
       THEN UNCHANGED <<firedHitsRef, hits, audioUrl, processState, hitsFrom,
                        staleIdx>>
       ELSE /\ firedHitsRef' = {}
            /\ hits' = <<>>
            /\ audioUrl' = nUploads + 1
            /\ processState' = StatusOnUpload(processState)
            /\ hitsFrom' = 0
            /\ staleIdx' = {}
    /\ UNCHANGED <<hitsRef, audioRef, lastHitTimes, velocities, rafPending,
                   mounted, uncaught, clock, time, currentHitsToFire, didReset,
                   emitLog, monoRun, idleTicks>>
    /\ UNCHANGED <<cleanVars, midiVars, orbVars>>

\* reader.onload fires: the base64 payload is handed to analyzeDrumStem and
\* the handler suspends at the await.
readerOnload(u) ==
    /\ uploads[u] = "reading"
    /\ uploads' = [uploads EXCEPT ![u] = "awaiting"]
    /\ UNCHANGED <<hits, hitsRef, processState, audioUrl, audioRef, firedHitsRef,
                   lastHitTimes, velocities, rafPending, mounted, nUploads,
                   uncaught, clock, time, currentHitsToFire, didReset, hitsFrom,
                   emitLog, monoRun, staleIdx, idleTicks>>
    /\ UNCHANGED <<cleanVars, midiVars, orbVars>>

\* analyzeDrumStem resolved with rawHits: the rest of reader.onload runs.
\* State setters of an unmounted component have no effect.
analysisResolved(u, rawHits) ==
    /\ uploads[u] = "awaiting"
    /\ uploads' = [uploads EXCEPT ![u] = "resolved"]
    /\ IF mounted
       THEN /\ hits' = cleanDetections(rawHits)
            /\ processState' = [status |-> "ready", message |-> ""]
            /\ hitsFrom' = u
       ELSE UNCHANGED <<hits, processState, hitsFrom>>
    /\ UNCHANGED <<hitsRef, audioUrl, audioRef, firedHitsRef, lastHitTimes,
                   velocities, rafPending, mounted, nUploads, uncaught, clock,
                   time, currentHitsToFire, didReset, emitLog, monoRun, staleIdx,
                   idleTicks>>
    /\ UNCHANGED <<cleanVars, midiVars, orbVars>>

\* analyzeDrumStem threw (gemini.ts 60-66): the await inside the async
\* reader.onload rejects; the try/catch of handleFileUpload has already been
\* left, so the rejection is handled by nobody.
analysisRejected(u, msg) ==
    /\ uploads[u] = "awaiting"
    /\ uploads' = [uploads EXCEPT ![u] = "rejected"]
    /\ uncaught' = msg
    /\ UNCHANGED <<hits, hitsRef, processState, audioUrl, audioRef, firedHitsRef,
                   lastHitTimes, velocities, rafPending, mounted, nUploads,
                   clock, time, currentHitsToFire, didReset, hitsFrom, emitLog,
                   monoRun, staleIdx, idleTicks>>
    /\ UNCHANGED <<cleanVars, midiVars, orbVars>>

(* ------------------------------------------------------------------ *)
(* React commit: the <audio> element and the hitsRef effect            *)
(* ------------------------------------------------------------------ *)
\* A render commits: the <audio> element exists iff audioUrl is set, and the
\* effect of lines 21-23 copies hits into hitsRef.current.
commitRender ==
    /\ mounted
    /\ \/ hitsRef # hits
       \/ audioRef # (audioUrl # 0)
    /\ hitsRef' = hits
    /\ audioRef' = (audioUrl # 0)
    /\ staleIdx' = IF hitsRef # hits THEN firedHitsRef ELSE staleIdx
    /\ idleTicks' = IF audioUrl # 0 THEN 0 ELSE idleTicks
    /\ UNCHANGED <<hits, processState, audioUrl, firedHitsRef, lastHitTimes,
                   velocities, rafPending, mounted, uploads, nUploads, uncaught,
                   clock, time, currentHitsToFire, didReset, hitsFrom, emitLog,
                   monoRun>>
    /\ UNCHANGED <<cleanVars, midiVars, orbVars>>

(* ------------------------------------------------------------------ *)
(* updateVisuals (PlaybackScheduler)                                   *)
(* ------------------------------------------------------------------ *)
\* Mutant of ShouldReset: compares against the whole length, not half of it.
ShouldResetWholeLength(t, fired, hs) ==
    t < LoopResetWindow /\ Cardinality(fired) > Len(hs)

\* Mutant of ShouldReset: any fired hit is enough to reset near the start.
ShouldResetAnyFired(t, fired, hs) ==
    t < LoopResetWindow /\ fired # {}

\* time < 0.1 && firedHitsRef.current.size > hitsRef.current.length / 2
ShouldReset(t, fired, hs) ==
    t < LoopResetWindow /\ 2 * Cardinality(fired) > Len(hs)

\* Mutant of DueIndices: a hit exactly at the playback time is not yet due.
DueIndicesStrict(t, fired, hs) ==
    {idx \in 0..(Len(hs) - 1) : hs[idx + 1].time < t /\ idx \notin fired}

\* h.time <= time && !firedHitsRef.current.has(idx)
DueIndices(t, fired, hs) ==
    {idx \in 0..(Len(hs) - 1) : hs[idx + 1].time <= t /\ idx \notin fired}

\* The hits pushed to currentHitsToFire, in forEach (index) order.
BatchOf(hs, due) ==
    LET F[i \in 0..Len(hs)] ==
            IF i = 0 THEN <<>>
            ELSE IF (i - 1) \in due THEN Append(F[i - 1], hs[i]) ELSE F[i - 1]
    IN  F[Len(hs)]

\* next[h.type] = h.velocity for each h of the batch, in order.
VelocitiesAfter(prev, batch) ==
    LET F[i \in 0..Len(batch)] ==
            IF i = 0 THEN prev
            ELSE [F[i - 1] EXCEPT ![batch[i].type] = batch[i].velocity]
    IN  F[Len(batch)]

\* The values performance.now() can return in n consecutive calls made
\* after the value from was last read: a later tick reads a later value,
\* and between two calls of one batch the clock may or may not have moved.
ClockReadings(from, n) ==
    {r \in [1..n -> (from + 1)..(from + n)] :
        /\ n > 0 => r[1] = from + 1
        /\ \A i \in 2..n : r[i] - r[i - 1] \in {0, 1}}

\* next[h.type] = performance.now() for each h of the batch, in order: the
\* clock is read once per hit, nows[i] for the i-th hit.
LastHitTimesAfter(prev, batch, nows) ==
    LET F[i \in 0..Len(batch)] ==
            IF i = 0 THEN prev
            ELSE [F[i - 1] EXCEPT ![batch[i].type] = nows[i]]
    IN  F[Len(batch)]

\* Mutant of FrameRequestsAfterTick: the early return without an audio
\* element forgets to request the next frame.
FrameRequestsNoReschedule(hasAudio, pending) ==
    IF hasAudio THEN (pending - 1) + 1 ELSE pending - 1

\* The callback consumed one frame request and, on both paths (lines 109
\* and 148), requests the next frame.
FrameRequestsAfterTick(hasAudio, pending) == (pending - 1) + 1

\* The body of updateVisuals on the program's own state, run by the browser
\* for a pending frame request.  Without the audio element the tick only
\* requests the next frame.
updateVisuals ==
    /\ rafPending > 0
    /\ rafPending' = FrameRequestsAfterTick(audioRef, rafPending)
    /\ IF ~audioRef
       THEN UNCHANGED <<firedHitsRef, lastHitTimes, velocities, clock, time,
                        currentHitsToFire>>
       ELSE \E t \in PlaybackTimes :
              LET fired0 == IF ShouldReset(t, firedHitsRef, hitsRef)
                            THEN {} ELSE firedHitsRef
                  due == DueIndices(t, fired0, hitsRef)
                  batch == BatchOf(hitsRef, due)
              IN  \E nows \in ClockReadings(clock, Len(batch)) :
                  /\ batch # <<>> => nows[Len(batch)] <= MaxClock
                  /\ time' = t
                  /\ firedHitsRef' = fired0 \cup due
                  /\ currentHitsToFire' = batch
                  /\ clock' = IF batch # <<>> THEN nows[Len(batch)] ELSE clock
                  /\ lastHitTimes' = IF batch # <<>>
                                     THEN LastHitTimesAfter(lastHitTimes, batch, nows)
                                     ELSE lastHitTimes
                  /\ velocities' = IF batch # <<>>
                                   THEN VelocitiesAfter(velocities, batch)
                                   ELSE velocities
    /\ UNCHANGED <<hits, hitsRef, processState, audioUrl, audioRef, mounted,
                   uploads, nUploads, uncaught, hitsFrom>>
    /\ UNCHANGED <<cleanVars, midiVars, orbVars>>

\* The tick read the playback time time' and cleared the fired-set.
TickDidReset == audioRef /\ ShouldReset(time', firedHitsRef, hitsRef)

\* A scheduler tick inside the whole application.
schedulerTick ==
    /\ ~audioRef => idleTicks < MaxIdleTicks
    /\ updateVisuals
    /\ staleIdx' = IF TickDidReset THEN {} ELSE staleIdx
    /\ idleTicks' = IF audioRef THEN idleTicks ELSE idleTicks + 1
    /\ UNCHANGED <<didReset, emitLog, monoRun>>

\* Mutant of PendingAfterCancel: the cleanup does not cancel the request.
PendingAfterNoCancel(pending) == pending

\* cancelAnimationFrame(rafRef.current): rafRef names the latest request,
\* the only one that can be pending.
PendingAfterCancel(pending) == IF pending > 0 THEN pending - 1 ELSE 0

\* Mutant of TimersAfterCleanup: the effect returns no cleanup.
TimersKept(timers, own) == timers

\* return () => clearTimeout(timeout): the cleanup an effect run returned
\* clears the timeout of that run (own; 0 when the run returned no cleanup).
TimersAfterCleanup(timers, own) == timers \ {own}

\* The view is torn down: the cleanup of the mount effect cancels the pending
\* frame request, React detaches the <audio> ref, and the cleanup of the
\* DrumOrb's last effect run clears its timeout. Effects still scheduled are
\* flushed before the tear-down is committed.
unmount ==
    /\ mounted
    /\ ~orbEffectPending
    /\ mounted' = FALSE
    /\ rafPending' = PendingAfterCancel(rafPending)
    /\ audioRef' = FALSE
    /\ orbTimers' = TimersAfterCleanup(orbTimers, orbOwnTimer)
    /\ orbOwnTimer' = 0
    /\ UNCHANGED <<orbNow, orbLastHitTime, orbVelocity, orbActive, orbScale,
                   orbEffectPending, orbPrevTimer>>
    /\ UNCHANGED <<hits, hitsRef, processState, audioUrl, firedHitsRef,
                   lastHitTimes, velocities, uploads, nUploads, uncaught, clock,
                   time, currentHitsToFire, didReset, hitsFrom, emitLog, monoRun,
                   staleIdx, idleTicks>>
    /\ UNCHANGED <<cleanVars, midiVars>>

Next ==
    \/ \E f \in Files : handleFileUpload(f)
    \/ \E u \in UploadIds : readerOnload(u)
    \/ \E u \in UploadIds : \E r \in OracleResponses : analysisResolved(u, r)
    \/ \E u \in UploadIds : \E m \in OracleErrors : analysisRejected(u, m)
    \/ commitRender
    \/ schedulerTick

Spec == Init /\ [][Next]_vars

\* The same session with oracle responses of a single drum type.
NextFlow ==
    \/ \E f \in Files : handleFileUpload(f)
    \/ \E u \in UploadIds : readerOnload(u)
    \/ \E u \in UploadIds : \E r \in FlowResponses : analysisResolved(u, r)
    \/ \E u \in UploadIds : \E m \in OracleErrors : analysisRejected(u, m)
    \/ commitRender
    \/ schedulerTick

SpecFlow == Init /\ [][NextFlow]_vars

\* The session including the teardown of the view.
NextLifecycle ==
    \/ NextFlow
    \/ unmount

SpecLifecycle == Init /\ [][NextLifecycle]_vars

(* ------------------------------------------------------------------ *)
(* Scheduler harness: one analysed upload, then ticks only             *)
(* ------------------------------------------------------------------ *)
\* The state after one upload whose analysis resolved with r and whose
\* render was committed: handleFileUpload, readerOnload, analysisResolved,
\* commitRender.
InitSched ==
    /\ \E r \in SchedResponses :
          /\ hits = cleanDetections(r)
          /\ hitsRef = cleanDetections(r)
    /\ processState = [status |-> "ready", message |-> ""]
    /\ audioUrl = 1
    /\ audioRef = TRUE
    /\ firedHitsRef = {}
    /\ lastHitTimes = [ty \in DrumTypes |-> 0]
    /\ velocities = [ty \in DrumTypes |-> 0]
    /\ rafPending = 1
    /\ mounted = TRUE
    /\ uploads = [u \in UploadIds |-> IF u = 1 THEN "resolved" ELSE "none"]
    /\ nUploads = 1
    /\ uncaught = ""
    /\ clock = 0
    /\ time = -1
    /\ currentHitsToFire = <<>>
    /\ didReset = FALSE
    /\ hitsFrom = 1
    /\ emitLog = NoEmissions
    /\ monoRun = TRUE
    /\ staleIdx = {}
    /\ idleTicks = 0
    /\ rawIn = <<>>
    /\ cleanOut = <<>>
    /\ cleanTwice = <<>>
    /\ cleanPc = "off"
    /\ InitMidiOff
    /\ InitOrb

Bump(n) == IF n < 2 THEN n + 1 ELSE 2

\* A scheduler tick with the observers of the run: how often each index was
\* emitted while the playback times read never decreased.
observedTick ==
    /\ updateVisuals
    /\ didReset' = TickDidReset
    /\ monoRun' = (monoRun /\ time' >= time)
    /\ emitLog' = IF monoRun /\ time' >= time
                  THEN [idx \in 0..(MaxResp - 1) |->
                          IF idx \in firedHitsRef' /\
                             (TickDidReset \/ idx \notin firedHitsRef)
                          THEN Bump(emitLog[idx]) ELSE emitLog[idx]]
                  ELSE NoEmissions
    /\ UNCHANGED <<staleIdx, idleTicks>>

NextSched == observedTick

SpecSched == InitSched /\ [][NextSched]_vars

(* ------------------------------------------------------------------ *)
(* Cleaner harness: cleanDetections on every bounded raw input         *)
(* ------------------------------------------------------------------ *)
InitClean ==
    /\ InitApp
    /\ rawIn \in RawInputs
    /\ cleanOut = <<>>
    /\ cleanTwice = <<>>
    /\ cleanPc = "raw"
    /\ InitMidiOff
    /\ InitOrb

CleanOnce ==
    /\ cleanPc = "raw"
    /\ cleanOut' = cleanDetections(rawIn)
    /\ cleanPc' = "cleaned"
    /\ UNCHANGED <<rawIn, cleanTwice>>
    /\ UNCHANGED <<appVars, midiVars, orbVars>>

CleanAgain ==
    /\ cleanPc = "cleaned"
    /\ cleanTwice' = cleanDetections(cleanOut)
    /\ cleanPc' = "recleaned"
    /\ UNCHANGED <<rawIn, cleanOut>>
    /\ UNCHANGED <<appVars, midiVars, orbVars>>

NextClean == CleanOnce \/ CleanAgain

SpecClean == InitClean /\ [][NextClean]_vars

(* ------------------------------------------------------------------ *)
(* DrumOrb                                                             *)
(* ------------------------------------------------------------------ *)
\* 1 + velocity * 0.6, in thousandths, for a velocity in hundredths.
OrbScale(v) == OrbNeutralScale + OrbGain * v

\* App renders the orb with the props of a firing of its type: lastHitTime
\* is the timestamp read when the firing was recorded, velocity the hit's.
\* The render changes no state of the orb; its effect is scheduled because a
\* dependency changed, and is flushed before the next render.
orbRender(v) ==
    /\ mounted
    /\ ~orbEffectPending
    /\ orbNow > orbLastHitTime
    /\ orbLastHitTime' = orbNow
    /\ orbVelocity' = v
    /\ orbEffectPending' = TRUE
    /\ UNCHANGED <<orbNow, orbActive, orbScale, orbTimers, orbOwnTimer,
                   orbPrevTimer>>
    /\ UNCHANGED <<appVars, cleanVars, midiVars>>

\* The scheduled effect runs: the cleanup of the previous run first, then
\* the body: for lastHitTime > 0 the orb becomes active and scaled and a
\* timeout is set 80 ms from now, whose cleanup is returned.
orbEffect ==
    /\ mounted
    /\ orbEffectPending
    /\ orbEffectPending' = FALSE
    /\ orbPrevTimer' = IF orbOwnTimer \in orbTimers THEN orbOwnTimer ELSE 0
    /\ IF orbLastHitTime > 0
       THEN /\ orbActive' = TRUE
            /\ orbScale' = OrbScale(orbVelocity)
            /\ orbTimers' = TimersAfterCleanup(orbTimers, orbOwnTimer)
                                \cup {orbNow + OrbWindow}
            /\ orbOwnTimer' = orbNow + OrbWindow
       ELSE /\ orbTimers' = TimersAfterCleanup(orbTimers, orbOwnTimer)
            /\ orbOwnTimer' = 0
            /\ UNCHANGED <<orbActive, orbScale>>
    /\ UNCHANGED <<orbNow, orbLastHitTime, orbVelocity>>
    /\ UNCHANGED <<appVars, cleanVars, midiVars>>

\* The callback of a pending timeout runs, at its deadline or later:
\* setScale(1); setActive(false).
orbTimeout(d) ==
    /\ d \in orbTimers
    /\ d <= orbNow
    /\ orbTimers' = orbTimers \ {d}
    /\ orbActive' = FALSE
    /\ orbScale' = OrbNeutralScale
    /\ UNCHANGED <<orbNow, orbLastHitTime, orbVelocity, orbEffectPending,
                   orbOwnTimer, orbPrevTimer>>
    /\ UNCHANGED <<appVars, cleanVars, midiVars>>

\* Time passes; a timeout that is due may run late.
orbAdvance(step) ==
    /\ orbNow + step <= MaxOrbNow
    /\ orbNow' = orbNow + step
    /\ UNCHANGED <<orbLastHitTime, orbVelocity, orbActive, orbScale, orbTimers,
                   orbEffectPending, orbOwnTimer, orbPrevTimer>>
    /\ UNCHANGED <<appVars, cleanVars, midiVars>>

NextOrb ==
    \/ \E v \in OrbVelocities : orbRender(v)
    \/ orbEffect
    \/ \E d \in orbTimers : orbTimeout(d)
    \/ \E step \in OrbSteps : orbAdvance(step)
    \/ unmount

SpecOrb == Init /\ [][NextOrb]_vars

(* ------------------------------------------------------------------ *)
(* downloadMidi                                                        *)
(* ------------------------------------------------------------------ *)
\* pitch = 'C1'; 'D1' for a snare; 'F#1' for a hihat.
MidiPitch(type) ==
    IF type = "hihat" THEN "F#1"
    ELSE IF type = "snare" THEN "D1"
    ELSE "C1"

\* Mutant of MidiTick: the tick is truncated instead of rounded.
MidiTickTruncated(t) ==
    (t * MidiTempo * MidiTicksPerBeat) \div 60000

\* Math.round((hit.time * 120 * 128) / 60) for a time of t ms: the nearest
\* integer to t * 120 * 128 / 60000, halves rounded up.
MidiTick(t) ==
    (t * MidiTempo * MidiTicksPerBeat + 30000) \div 60000

\* Math.floor(hit.velocity * 127) for a velocity of v hundredths.
MidiVelocity(v) == (v * MidiVelocityScale) \div 100

\* The argument of the NoteEvent built for one hit.
NoteOf(hit) ==
    [pitch |-> MidiPitch(hit.type),
     duration |-> "t64",
     startTick |-> MidiTick(hit.time),
     velocity |-> MidiVelocity(hit.velocity)]

\* downloadMidi: without hits it returns at once; otherwise it adds one
\* NoteEvent per hit, in order, builds the file and offers it for download.
downloadMidi ==
    /\ midiClicks < MaxDownloads
    /\ midiClicks' = midiClicks + 1
    /\ IF Len(hits) = 0
       THEN UNCHANGED <<midiDownloads, midiNotes>>
       ELSE /\ midiNotes' = [i \in 1..Len(hits) |-> NoteOf(hits[i])]
            /\ midiDownloads' = midiDownloads + 1
    /\ UNCHANGED <<appVars, cleanVars, orbVars>>

\* The application after one upload was analysed and rendered, for every
\* response over the export grid.
InitMidi ==
    /\ \E r \in MidiResponses :
          /\ hits = cleanDetections(r)
          /\ hitsRef = cleanDetections(r)
    /\ processState = [status |-> "ready", message |-> ""]
    /\ audioUrl = 1
    /\ audioRef = TRUE
    /\ firedHitsRef = {}
    /\ lastHitTimes = [ty \in DrumTypes |-> 0]
    /\ velocities = [ty \in DrumTypes |-> 0]
    /\ rafPending = 1
    /\ mounted = TRUE
    /\ uploads = [u \in UploadIds |-> IF u = 1 THEN "resolved" ELSE "none"]
    /\ nUploads = 1
    /\ uncaught = ""
    /\ clock = 0
    /\ time = -1
    /\ currentHitsToFire = <<>>
    /\ didReset = FALSE
    /\ hitsFrom = 1
    /\ emitLog = NoEmissions
    /\ monoRun = TRUE
    /\ staleIdx = {}
    /\ idleTicks = 0
    /\ rawIn = <<>>
    /\ cleanOut = <<>>
    /\ cleanTwice = <<>>
    /\ cleanPc = "off"
    /\ InitMidiOff
    /\ InitOrb

NextMidi == downloadMidi

SpecMidi == InitMidi /\ [][NextMidi]_vars

(* ------------------------------------------------------------------ *)
(* Claims                                                              *)
(* ------------------------------------------------------------------ *)
HitIndices == 0..(Len(hitsRef) - 1)

AscendingByTime(hs) ==
    \A i, j \in 1..Len(hs) : i < j => hs[i].time <= hs[j].time

\* C1 (as claimed; SpecSched): while the playback times read by the ticks
\* never decrease and no upload intervenes, every hit is emitted at most
\* once, every hit whose time has been reached has been emitted exactly
\* once, and each batch is in ascending time order.
ExactlyOnceUnderMonotoneTime ==
    monoRun =>
        /\ \A idx \in HitIndices :
              /\ emitLog[idx] <= 1
              /\ hitsRef[idx + 1].time <= time => emitLog[idx] = 1
        /\ AscendingByTime(currentHitsToFire)

\* C2 (as claimed; Spec): the canonical hits are empty or the cleaned result
\* of the most recently started upload, and the status is 'ready' only by
\* the response of the most recently started upload.
LastUploadWins ==
    /\ hits = <<>> \/ hitsFrom = audioUrl
    /\ processState.status = "ready" => hitsFrom = audioUrl

\* C3 (as claimed; Spec): when the oracle call of an upload has failed, no
\* error has escaped uncaught, and if that upload is the latest one the
\* status is 'error' with a message.
OracleFailureCaught ==
    \A u \in UploadIds :
        uploads[u] = "rejected" =>
            /\ uncaught = ""
            /\ u = audioUrl =>
                  /\ processState.status = "error"
                  /\ processState.message # ""

\* C4 (as claimed; Spec): whenever the scheduler can read a non-empty
\* canonical sequence, every index of the fired-set was marked against that
\* sequence (the fired-set is empty when a new sequence becomes visible).
FiredSetMatchesSequence ==
    (mounted /\ hitsRef # <<>>) => staleIdx = {}

DueAt(t) == {idx \in HitIndices : hitsRef[idx + 1].time <= t}

\* C5 (SpecSched): a tick that reads t < 0.1 s while more than half of the
\* hits' indices are fired clears the fired-set first, so every hit with
\* time <= t is emitted again by that tick, previously fired or not; on
\* every tick the hits that become fired are exactly the emitted batch.
LoopResetRefires ==
    [][ /\ (time' < LoopResetWindow /\ 2 * Cardinality(firedHitsRef) > Len(hitsRef))
           => /\ firedHitsRef' = DueAt(time')
              /\ currentHitsToFire' = BatchOf(hitsRef, DueAt(time'))
              /\ didReset'
        /\ ~(time' < LoopResetWindow /\ 2 * Cardinality(firedHitsRef) > Len(hitsRef))
           => /\ firedHitsRef' = firedHitsRef \cup DueAt(time')
              /\ currentHitsToFire' = BatchOf(hitsRef, DueAt(time') \ firedHitsRef)
              /\ ~didReset'
      ]_vars

\* C5 witness: a loop reset happened after earlier emissions and the tick
\* emitted a hit again.
LoopResetWitness ==
    /\ didReset
    /\ clock >= 2
    /\ currentHitsToFire # <<>>
    /\ Len(hitsRef) = 2

\* C6 (SpecSched): after a tick that read playback time t from the audio element,
\* every hit of the sequence with time <= t is in the fired-set, and every
\* hit emitted by the tick has time <= t.
NoDueHitSkipped ==
    [][ (updateVisuals /\ audioRef)
        => /\ \A idx \in HitIndices :
                 hitsRef[idx + 1].time <= time' => idx \in firedHitsRef'
           /\ \A i \in 1..Len(currentHitsToFire') :
                 currentHitsToFire'[i].time <= time'
      ]_vars

\* C6 witness: a tick emitted a due hit while a later hit stayed unfired.
NoDueHitSkippedWitness ==
    /\ currentHitsToFire # <<>>
    /\ \E idx \in HitIndices :
          /\ hitsRef[idx + 1].time > time
          /\ idx \notin firedHitsRef
    /\ \E idx \in HitIndices :
          /\ hitsRef[idx + 1].time <= time
          /\ idx \in firedHitsRef

Cleaned == cleanPc \in {"cleaned", "recleaned"}

\* C7 (SpecClean): any two distinct kept hits of the same type are at least
\* 35 ms apart.
DebounceKept ==
    Cleaned =>
        \A i, j \in 1..Len(cleanOut) :
            (i # j /\ cleanOut[i].type = cleanOut[j].type)
                => Abs(cleanOut[i].time - cleanOut[j].time) >= 35

\* C7 witness: a near-duplicate was dropped and two hits of one type exactly
\* 35 ms apart were both kept.
DebounceWitness ==
    /\ Cleaned
    /\ Len(cleanOut) < Len(rawIn)
    /\ \E i, j \in 1..Len(cleanOut) :
          /\ cleanOut[i].type = cleanOut[j].type
          /\ cleanOut[j].time - cleanOut[i].time = 35

\* C8 (SpecClean): cleaning the cleaned sequence again gives the same
\* sequence (same hits, order and velocities).
CleanIdempotent ==
    cleanPc = "recleaned" => cleanTwice = cleanOut

\* C8 witness: the first cleaning dropped a hit, clamped a velocity and kept
\* two hits at the same time; the second cleaning has run.
CleanIdempotentWitness ==
    /\ cleanPc = "recleaned"
    /\ Len(cleanOut) < Len(rawIn)
    /\ \E i \in 1..Len(rawIn) : rawIn[i].velocity > VelocityCeil
    /\ \E i, j \in 1..Len(cleanOut) : i # j /\ cleanOut[i].time = cleanOut[j].time

\* C9 (SpecClean): the output of cleanDetections is in non-decreasing time
\* order, whatever the input order.
CleanSorted ==
    Cleaned => AscendingByTime(cleanOut)

\* C9 witness: an input out of time order of which two hits at different
\* times were kept.
CleanSortedWitness ==
    /\ Cleaned
    /\ \E i, j \in 1..Len(rawIn) : i < j /\ rawIn[i].time > rawIn[j].time
    /\ \E i, j \in 1..Len(cleanOut) : cleanOut[i].time < cleanOut[j].time

ExpectedVelocity(v) == IF v < 10 THEN 10 ELSE IF v > 100 THEN 100 ELSE v

\* C10 (SpecClean): every kept hit has velocity in [0.1, 1.0] and is an
\* input hit (same time and type) whose velocity became 0.1 if below 0.1,
\* 1.0 if above 1.0, and is unchanged otherwise.
VelocityClamped ==
    Cleaned =>
        \A i \in 1..Len(cleanOut) :
            /\ cleanOut[i].velocity >= 10
            /\ cleanOut[i].velocity <= 100
            /\ \E k \in 1..Len(rawIn) :
                  /\ rawIn[k].time = cleanOut[i].time
                  /\ rawIn[k].type = cleanOut[i].type
                  /\ cleanOut[i].velocity = ExpectedVelocity(rawIn[k].velocity)

\* C10 witness: velocities 0.05, 0.6 and 1.2 were kept as 0.1, 0.6 and 1.0.
VelocityClampedWitness ==
    /\ Cleaned
    /\ Len(cleanOut) = 3
    /\ {rawIn[k].velocity : k \in 1..Len(rawIn)} = {5, 60, 120}
    /\ {cleanOut[i].velocity : i \in 1..Len(cleanOut)} = {10, 60, 100}

\* C11 (SpecFlow): the status only changes to 'analyzing' by an upload that
\* carries a file, or from 'analyzing' to 'ready' or 'error'; so 'error' is
\* left only by an upload and 'ready' is entered only from 'analyzing'.
StatusTransitions ==
    [][ processState'.status # processState.status =>
          \/ /\ processState'.status = "analyzing"
             /\ nUploads' = nUploads + 1
             /\ uploads'[nUploads'] = "reading"
          \/ /\ processState.status = "analyzing"
             /\ processState'.status \in {"ready", "error"}
      ]_vars

\* C11 witness: two uploads went through analyzing to ready.
StatusTransitionsWitness ==
    /\ processState.status = "ready"
    /\ nUploads = 2
    /\ uploads[1] = "resolved"
    /\ uploads[2] = "resolved"

\* C12 (SpecFlow): a change event with a file leaves the fired-set empty, the
\* canonical hits empty and the status 'analyzing'; a change event without
\* a file changes nothing of the application's state.
UploadResets ==
    [][ nUploads' # nUploads =>
          IF uploads'[nUploads'] = "nofile"
          THEN UNCHANGED <<hits, hitsRef, processState, audioUrl, audioRef,
                           firedHitsRef, lastHitTimes, velocities, rafPending,
                           mounted, uncaught, clock, time, currentHitsToFire>>
          ELSE /\ firedHitsRef' = {}
               /\ hits' = <<>>
               /\ processState'.status = "analyzing"
      ]_vars

\* C12 witness: a second upload started after the first one was analysed
\* and its hits had fired: the scheduler still reads the old hits, the
\* fired-set and the canonical hits are empty and the status is analyzing.
UploadResetsWitness ==
    /\ nUploads = 2
    /\ uploads[1] = "resolved"
    /\ uploads[2] = "reading"
    /\ clock >= 1
    /\ hitsRef # <<>>
    /\ hits = <<>>
    /\ firedHitsRef = {}
    /\ processState.status = "analyzing"

IsCanonical(hs) ==
    /\ AscendingByTime(hs)
    /\ \A i \in 1..Len(hs) : hs[i].velocity >= 10 /\ hs[i].velocity <= 100
    /\ \A i, j \in 1..Len(hs) :
          (i # j /\ hs[i].type = hs[j].type) => Abs(hs[i].time - hs[j].time) >= 35

\* C13 (SpecFlow): the hit sequence held by the state (read by MIDI export) and
\* the one read by the scheduler are empty or sorted, debounced and clamped;
\* with status 'ready' the sequence came from an oracle response.
OnlyCleanedHits ==
    /\ IsCanonical(hits)
    /\ IsCanonical(hitsRef)
    /\ processState.status = "ready" =>
          /\ hitsFrom \in UploadIds
          /\ uploads[hitsFrom] = "resolved"
          /\ \E r \in OracleResponses : hits = cleanDetections(r)

\* C13 witness: the status is ready and the scheduler reads two cleaned hits
\* whose raw velocity 0.05 was raised to 0.1.
OnlyCleanedHitsWitness ==
    /\ processState.status = "ready"
    /\ Len(hits) = 2
    /\ hitsRef = hits
    /\ hits[1].velocity = 10

\* The tick reading playback time t meets the loop-reset condition.
ResetCondition(t) ==
    t < 100 /\ 2 * Cardinality(firedHitsRef) > Len(hitsRef)

\* C14 (SpecFlow): an index leaves the fired-set only by an upload with a file
\* or by a tick that meets the loop-reset condition; any other tick with the
\* audio element only adds the due indices that were not fired and emits
\* exactly those hits, whether the playback time moved backward or not.
FiredOnlyGrows ==
    [][ /\ ~(firedHitsRef \subseteq firedHitsRef') =>
              \/ nUploads' = nUploads + 1 /\ uploads'[nUploads'] = "reading"
              \/ updateVisuals /\ audioRef /\ ResetCondition(time')
        /\ (updateVisuals /\ audioRef /\ ~ResetCondition(time')) =>
              /\ firedHitsRef' = firedHitsRef \cup DueAt(time')
              /\ currentHitsToFire' = BatchOf(hitsRef, DueAt(time') \ firedHitsRef)
      ]_vars

\* C14 witness: after a backward seek without reset a fired hit of the
\* current sequence lies after the playback time last read, and the tick
\* emitted nothing.
FiredOnlyGrowsWitness ==
    /\ time >= 0
    /\ staleIdx = {}
    /\ currentHitsToFire = <<>>
    /\ \E idx \in firedHitsRef :
          /\ idx \in HitIndices
          /\ hitsRef[idx + 1].time > time

\* C15 (SpecFlow): a tick that finds no audio element changes neither the
\* fired-set nor the visual activity and leaves one frame request pending.
IdleTickIsNoOp ==
    [][ idleTicks' = idleTicks + 1 =>
          /\ UNCHANGED <<firedHitsRef, lastHitTimes, velocities, clock, time,
                         currentHitsToFire, hits, hitsRef, processState>>
          /\ rafPending' = 1
      ]_vars

\* C15 witness: ticks ran without an audio element and the loop is still
\* scheduled.
IdleTickWitness ==
    /\ idleTicks = 2
    /\ ~audioRef
    /\ rafPending = 1

\* C16 (SpecLifecycle): while the view is mounted exactly one frame request
\* is pending; once it is torn down none is pending, and the fired-set and
\* the visual activity never change again.
FrameLoopCancelled ==
    [][ /\ mounted' => rafPending' = 1
        /\ ~mounted' =>
              /\ rafPending' = 0
              /\ UNCHANGED <<firedHitsRef, lastHitTimes, velocities, clock, time,
                             currentHitsToFire>>
      ]_vars

\* C16 witness: the view was torn down after the scheduler had fired hits.
FrameLoopCancelledWitness ==
    /\ ~mounted
    /\ rafPending = 0
    /\ firedHitsRef # {}
    /\ clock >= 1

\* Positions of the hits of type ty in a batch.
OfType(batch, ty) == {i \in 1..Len(batch) : batch[i].type = ty}

\* C17 (SpecSched): a tick that emits a non-empty batch records, for each
\* type with a hit in the batch, the velocity of the last hit of that type
\* (none of that type in the batch is later in time) and, as timestamp, the
\* wall-clock time of that tick, one time T for the tick; it leaves the other
\* types as they were; a tick that emits nothing changes no visual activity.
VisualActivityUpdated ==
    [][ IF currentHitsToFire' = <<>>
        THEN UNCHANGED <<lastHitTimes, velocities, clock>>
        ELSE \E T \in (clock + 1)..clock' :
               \A ty \in DrumTypes :
                  LET at == OfType(currentHitsToFire', ty)
                  IN  IF at = {}
                      THEN /\ velocities'[ty] = velocities[ty]
                           /\ lastHitTimes'[ty] = lastHitTimes[ty]
                      ELSE \E last \in at :
                             /\ \A j \in at :
                                  /\ j <= last
                                  /\ currentHitsToFire'[j].time
                                        <= currentHitsToFire'[last].time
                             /\ velocities'[ty] = currentHitsToFire'[last].velocity
                             /\ lastHitTimes'[ty] = T
      ]_vars

\* The earliest raw hit: the first one, in input order, of minimal time.
EarliestRaw ==
    rawIn[CHOOSE i \in 1..Len(rawIn) :
            /\ \A j \in 1..Len(rawIn) : rawIn[i].time <= rawIn[j].time
            /\ \A j \in 1..(i - 1) : rawIn[j].time > rawIn[i].time]

\* All raw hits have one type and are less than 35 ms after the earliest.
OneCluster ==
    /\ rawIn # <<>>
    /\ \A i \in 1..Len(rawIn) :
          /\ rawIn[i].type = EarliestRaw.type
          /\ rawIn[i].time - EarliestRaw.time < 35

\* C19 (SpecClean): every raw hit, kept or dropped, has a kept hit of its
\* type at an earlier or equal time less than 35 ms before it (so a hit
\* exactly 35 ms after the kept one is not dropped for it); no more hits
\* are kept than given; an input that is one cluster yields exactly its
\* earliest hit (velocity clamped), whatever the velocities are.
ClusterRepresentative ==
    Cleaned =>
        /\ Len(cleanOut) <= Len(rawIn)
        /\ \A i \in 1..Len(rawIn) :
              \E k \in 1..Len(cleanOut) :
                  /\ cleanOut[k].type = rawIn[i].type
                  /\ cleanOut[k].time <= rawIn[i].time
                  /\ rawIn[i].time - cleanOut[k].time < 35
        /\ OneCluster =>
              cleanOut = << [EarliestRaw EXCEPT
                               !.velocity = ExpectedVelocity(EarliestRaw.velocity)] >>

\* C18 (SpecMidi): the file built by downloadMidi has one note per hit, in
\* order, with pitch C1 / D1 / F#1 for kick / snare / hihat, the start tick
\* nearest to 256 ticks per second (halves up) and the velocity
\* floor(velocity * 127); time 1.0 s and velocity 0.8 give tick 256 and
\* velocity 101; with no hits no file is built.
MidiMapping ==
    /\ hits = <<>> => (midiDownloads = 0 /\ midiNotes = <<>>)
    /\ hits # <<>> => midiDownloads = midiClicks
    /\ midiDownloads > 0 =>
          /\ Len(midiNotes) = Len(hits)
          /\ \A i \in 1..Len(hits) :
                /\ hits[i].type = "kick" => midiNotes[i].pitch = "C1"
                /\ hits[i].type = "snare" => midiNotes[i].pitch = "D1"
                /\ hits[i].type = "hihat" => midiNotes[i].pitch = "F#1"
                /\ 2000 * midiNotes[i].startTick - 1000 <= 512 * hits[i].time
                /\ 512 * hits[i].time < 2000 * midiNotes[i].startTick + 1000
                /\ 100 * midiNotes[i].velocity <= 127 * hits[i].velocity
                /\ 127 * hits[i].velocity < 100 * (midiNotes[i].velocity + 1)
                /\ (hits[i].time = 1000 /\ hits[i].velocity = 80) =>
                      (midiNotes[i].startTick = 256 /\ midiNotes[i].velocity = 101)

\* C18 witness: a file was built from a kick at 1.0 s with velocity 0.8 and a
\* hihat at 1.234 s: ticks 256 and 316, velocity 101.
MidiMappingWitness ==
    /\ midiDownloads = 1
    /\ Len(hits) = 2
    /\ hits[1] = [time |-> 1000, type |-> "kick", velocity |-> 80]
    /\ hits[2].time = 1234
    /\ hits[2].type = "hihat"
    /\ midiNotes[1].startTick = 256
    /\ midiNotes[1].velocity = 101
    /\ midiNotes[1].pitch = "C1"
    /\ midiNotes[2].startTick = 316
    /\ midiNotes[2].pitch = "F#1"

\* C20 as stated (SpecOrb): while mounted, from the moment a firing is
\* published (lastHitTime > 0) until 80 ms after the most recent one the orb
\* is active with scale 1 + 0.6 * velocity, and at all other times it is
\* inactive with scale 1.
OrbDecayWindow ==
    mounted =>
        /\ (orbLastHitTime > 0 /\ orbNow < orbLastHitTime + 80) =>
              /\ orbActive
              /\ orbScale = 1000 + 6 * orbVelocity
        /\ (orbLastHitTime = 0 \/ orbNow > orbLastHitTime + 80) =>
              /\ ~orbActive
              /\ orbScale = 1000

\* C20 amended (SpecOrb): while mounted, the orb is active exactly while a
\* timeout is pending, and the only timeout that can be pending is the one set
\* by the latest effect run; so from the effect run of a published firing
\* (lastHitTime > 0) until that run's timeout callback, which is at least
\* 80 ms after the run, the orb is active with scale 1 + 0.6 * velocity of
\* that firing, and before the first firing and after a timeout callback it
\* is inactive with scale 1. No timeout of an earlier effect run deactivates
\* the orb during the 80 ms after a later run.
OrbActiveUntilTimeout ==
    mounted =>
        /\ orbActive <=> orbTimers # {}
        /\ orbTimers \subseteq {orbOwnTimer}
        /\ (orbOwnTimer > 0 /\ orbNow < orbOwnTimer) => orbActive
        /\ orbActive => \E v \in OrbVelocities : orbScale = 1000 + 6 * v
        /\ (orbActive /\ ~orbEffectPending) => orbScale = 1000 + 6 * orbVelocity
        /\ ~orbActive => orbScale = 1000
        /\ orbLastHitTime = 0 => ~orbActive

\* C20 witness: the effect of a second firing ran while the timeout of the
\* first was pending and cleared it; the deadline of the cleared timeout has
\* passed and the orb is still active in the 80 ms after the second effect
\* run, scaled by the second velocity.
OrbDecayWitness ==
    /\ mounted
    /\ orbPrevTimer > 0
    /\ orbNow >= orbPrevTimer
    /\ orbNow < orbOwnTimer
    /\ ~orbEffectPending
    /\ orbActive
    /\ orbVelocity = 80
    /\ orbScale = 1480

====
